---- MODULE Spec2Model ----
(***************************************************************************)
(* Startup KPI dashboard: the metrics store, the analytics functions       *)
(* (calculate_growth_rate, analyze_kpi_trends), the HTTP routes and the    *)
(* MCP tools of src/kpi/main.py and src/mcp/kpi/{api,helpers,main}.py.     *)
(*                                                                         *)
(* Numbers.  Sample values are kept as integers in tenths of a unit        *)
(* (Units), so that the literal churn series (4.2 .. 2.1) is exact.        *)
(* A growth rate is the exact rational [num, den] with den > 0, reduced to *)
(* lowest terms; round(x, 2) and the format {x:.1f} are modelled as        *)
(* round-half-even to an integer number of hundredths / tenths.  The       *)
(* generated inputs are whole units, for which the double arithmetic of    *)
(* the code agrees with the exact value at every branch threshold.         *)
(***************************************************************************)
EXTENDS Integers, Sequences, FiniteSets, TLC

VARIABLES shell, apiUp, store, dataset, call, result

vars == <<shell, apiUp, store, dataset, call, result>>

(* ----------------------------- bounds ---------------------------------- *)

\* longest generated series
MaxLen == 3

\* most metrics in a generated dataset
MaxMetrics == 2

(* ----------------------------- numbers --------------------------------- *)

\* n whole units, in the integer representation of sample values (tenths)
Units(n) == 10 * n

Abs(x) == IF x < 0 THEN -x ELSE x

RECURSIVE GCD(_, _)
GCD(a, b) == IF b = 0 THEN a ELSE GCD(b, a % b)

\* the rational n / d (d # 0), denominator positive, lowest terms
Rat(n, d) ==
    LET s == IF d < 0 THEN -1 ELSE 1
        g == GCD(Abs(n), Abs(d))
    IN  [num |-> (s * n) \div g, den |-> (s * d) \div g]

\* the float literal 0.0
Zero == [num |-> 0, den |-> 1]

\* r > k, r < k for an integer k
RatGT(r, k) == r.num > k * r.den
RatLT(r, k) == r.num < k * r.den

\* abs(r)
RatAbs(r) == [num |-> Abs(r.num), den |-> r.den]

\* n / d (d > 0) rounded to the nearest integer, ties to the even one
RoundHalfEven(n, d) ==
    LET q == n \div d
        r == n % d
    IN  IF 2 * r < d THEN q
        ELSE IF 2 * r > d THEN q + 1
        ELSE IF q % 2 = 0 THEN q ELSE q + 1

\* round(r, 2), as a number of hundredths
Round2(r) == RoundHalfEven(100 * r.num, r.den)

\* f"{r:.1f}", as a number of tenths
Fmt1(r) == RoundHalfEven(10 * r.num, r.den)

(* ----------------------------- the store ------------------------------- *)

Months == <<"2025-03", "2025-04", "2025-05", "2025-06", "2025-07", "2025-08">>

\* a series from its values (whole or tenths), months in chronological order
MkSeries(vals) == [i \in 1..Len(vals) |-> [month |-> Months[i], value |-> vals[i]]]

Whole(vals) == [i \in 1..Len(vals) |-> Units(vals[i])]

SAMPLE_KPI_DATA ==
    [ metrics |-> <<
        [ name |-> "monthly_recurring_revenue",
          info |-> [ unit |-> "USD",
                     description |-> "Monthly Recurring Revenue",
                     data |-> MkSeries(Whole(<<8800, 9700, 10500, 11400, 12250, 12500>>)) ] ],
        [ name |-> "active_users",
          info |-> [ unit |-> "users",
                     description |-> "Monthly Active Users",
                     data |-> MkSeries(Whole(<<2100, 2350, 2675, 2920, 3050, 3100>>)) ] ],
        [ name |-> "churn_rate",
          info |-> [ unit |-> "%",
                     description |-> "Customer Churn Rate",
                     data |-> MkSeries(<<42, 38, 33, 27, 23, 21>>) ] ],
        [ name |-> "customer_acquisition_cost",
          info |-> [ unit |-> "USD",
                     description |-> "Customer Acquisition Cost",
                     data |-> MkSeries(Whole(<<85, 78, 72, 68, 65, 62>>)) ] ],
        [ name |-> "lifetime_value",
          info |-> [ unit |-> "USD",
                     description |-> "Customer Lifetime Value",
                     data |-> MkSeries(Whole(<<580, 620, 650, 680, 720, 750>>)) ] ] >>,
      last_updated |-> "import-time",
      company_info |-> [ name |-> "Your Startup", founded |-> "2024-01-01",
                         industry |-> "SaaS", stage |-> "Early Growth" ] ]

\* dict access: the position of a key in the ordered mapping, 0 when absent
IndexOf(metrics, name) ==
    IF \E i \in 1..Len(metrics) : metrics[i].name = name
    THEN CHOOSE i \in 1..Len(metrics) : metrics[i].name = name
    ELSE 0

\* name in kpi_data["metrics"]
HasMetric(kpi_data, name) == IndexOf(kpi_data.metrics, name) # 0

\* kpi_data["metrics"][name]
MetricInfo(kpi_data, name) == kpi_data.metrics[IndexOf(kpi_data.metrics, name)].info

(* ------------------------- analytics functions ------------------------- *)

\* a variant: growth over the last period, from the sample before the last
calculate_growth_rate_last_period(data) ==
    IF Len(data) < 2 THEN Zero
    ELSE LET first_value == data[Len(data) - 1].value
             last_value == data[Len(data)].value
         IN  IF first_value = 0 THEN Zero
             ELSE Rat((last_value - first_value) * 100, first_value)

calculate_growth_rate(data) ==
    IF Len(data) < 2 THEN Zero
    ELSE LET first_value == data[1].value
             last_value == data[Len(data)].value
         IN  IF first_value = 0 THEN Zero
             ELSE Rat((last_value - first_value) * 100, first_value)


\* metric_name.replace('_', ' ').title()
Title(metric_name) ==
    CASE metric_name = "customer_acquisition_cost" -> "Customer Acquisition Cost"
      [] metric_name = "lifetime_value" -> "Lifetime Value"
      [] OTHER -> metric_name

\* a variant: -1 stands for "no sample"
latest_value_of_sentinel(data) == IF Len(data) > 0 THEN data[Len(data)].value ELSE -1

\* latest_value = data[-1]["value"] if data else 0
latest_value_of(data) == IF Len(data) > 0 THEN data[Len(data)].value ELSE 0

\* a variant: the thresholds 15 and 5 belong to the upper branches
mrr_insight_inclusive(growth_rate) ==
    IF ~RatLT(growth_rate, 15)
    THEN [template |-> "Excellent MRR growth", shown |-> Fmt1(growth_rate)]
    ELSE IF ~RatLT(growth_rate, 5)
    THEN [template |-> "Solid MRR growth", shown |-> Fmt1(growth_rate)]
    ELSE [template |-> "MRR growth is; focus on customer acquisition and retention",
          shown |-> Fmt1(growth_rate)]

\* the message for monthly_recurring_revenue
mrr_insight(growth_rate) ==
    IF RatGT(growth_rate, 15)
    THEN [template |-> "Excellent MRR growth", shown |-> Fmt1(growth_rate)]
    ELSE IF RatGT(growth_rate, 5)
    THEN [template |-> "Solid MRR growth", shown |-> Fmt1(growth_rate)]
    ELSE [template |-> "MRR growth is; focus on customer acquisition and retention",
          shown |-> Fmt1(growth_rate)]

\* a variant: the thresholds 3 and 5 belong to the lower branches
churn_insight_inclusive(latest_value) ==
    IF latest_value <= Units(3)
    THEN [template |-> "Excellent churn rate", shown |-> latest_value]
    ELSE IF latest_value <= Units(5)
    THEN [template |-> "Good churn rate", shown |-> latest_value]
    ELSE [template |-> "High churn rate; urgent attention needed", shown |-> latest_value]

\* the message for churn_rate
churn_insight(latest_value) ==
    IF latest_value < Units(3)
    THEN [template |-> "Excellent churn rate", shown |-> latest_value]
    ELSE IF latest_value < Units(5)
    THEN [template |-> "Good churn rate", shown |-> latest_value]
    ELSE [template |-> "High churn rate; urgent attention needed", shown |-> latest_value]

\* a variant: the thresholds 20 and 10 belong to the upper branches
users_insight_inclusive(growth_rate) ==
    IF ~RatLT(growth_rate, 20)
    THEN [template |-> "Outstanding user growth", shown |-> Fmt1(growth_rate)]
    ELSE IF ~RatLT(growth_rate, 10)
    THEN [template |-> "Good user growth", shown |-> Fmt1(growth_rate)]
    ELSE [template |-> "User growth is; consider user acquisition strategies",
          shown |-> Fmt1(growth_rate)]

\* the message for active_users
users_insight(growth_rate) ==
    IF RatGT(growth_rate, 20)
    THEN [template |-> "Outstanding user growth", shown |-> Fmt1(growth_rate)]
    ELSE IF RatGT(growth_rate, 10)
    THEN [template |-> "Good user growth", shown |-> Fmt1(growth_rate)]
    ELSE [template |-> "User growth is; consider user acquisition strategies",
          shown |-> Fmt1(growth_rate)]

\* a variant: no growth counts as trending up
generic_insight_nonnegative(metric_name, growth_rate) ==
    IF ~RatLT(growth_rate, 0)
    THEN [template |-> "is trending up by", title |-> Title(metric_name),
          shown |-> Fmt1(growth_rate)]
    ELSE [template |-> "is trending down by", title |-> Title(metric_name),
          shown |-> Fmt1(RatAbs(growth_rate))]

\* the message for every other identifier
generic_insight(metric_name, growth_rate) ==
    IF RatGT(growth_rate, 0)
    THEN [template |-> "is trending up by", title |-> Title(metric_name),
          shown |-> Fmt1(growth_rate)]
    ELSE [template |-> "is trending down by", title |-> Title(metric_name),
          shown |-> Fmt1(RatAbs(growth_rate))]

\* a variant: the growth rate is rounded to 2 decimals first, and the rounded
\* value is what the thresholds see
trend_insight_rounded_first(metric_name, metric_info) ==
    LET data == metric_info.data
        growth_rate == Rat(Round2(calculate_growth_rate(data)), 100)
        latest_value == latest_value_of(data)
        insight ==
            IF metric_name = "monthly_recurring_revenue" THEN mrr_insight(growth_rate)
            ELSE IF metric_name = "churn_rate" THEN churn_insight(latest_value)
            ELSE IF metric_name = "active_users" THEN users_insight(growth_rate)
            ELSE generic_insight(metric_name, growth_rate)
    IN  [ metric |-> metric_name,
          current_value |-> latest_value,
          growth_rate |-> Round2(growth_rate),
          insight |-> insight,
          unit |-> metric_info.unit ]

\* the body of the loop of analyze_kpi_trends: the record appended for one metric
trend_insight(metric_name, metric_info) ==
    LET data == metric_info.data
        growth_rate == calculate_growth_rate(data)
        latest_value == latest_value_of(data)
        insight ==
            IF metric_name = "monthly_recurring_revenue" THEN mrr_insight(growth_rate)
            ELSE IF metric_name = "churn_rate" THEN churn_insight(latest_value)
            ELSE IF metric_name = "active_users" THEN users_insight(growth_rate)
            ELSE generic_insight(metric_name, growth_rate)
    IN  [ metric |-> metric_name,
          current_value |-> latest_value,
          growth_rate |-> Round2(growth_rate),
          insight |-> insight,
          unit |-> metric_info.unit ]

\* the loop over kpi_data["metrics"].items(): insights so far, next position
RECURSIVE analyze_loop(_, _, _)
analyze_loop(metrics, i, insights) ==
    IF i > Len(metrics) THEN insights
    ELSE analyze_loop(metrics, i + 1,
                      Append(insights, trend_insight(metrics[i].name, metrics[i].info)))

\* a variant: metrics without samples are skipped
analyze_kpi_trends_skip_empty(kpi_data) ==
    analyze_loop(SelectSeq(kpi_data.metrics, LAMBDA m : Len(m.info.data) > 0), 1, <<>>)

analyze_kpi_trends(kpi_data) == analyze_loop(kpi_data.metrics, 1, <<>>)

(* ----------------------------- HTTP routes ----------------------------- *)

\* the two deployments: the single-file server, and the split api/helpers/main
Shells == {"kpi", "mcp"}

root == [ status |-> 200,
          body |-> [ message |-> "Startup KPI Dashboard API", version |-> "1.0.0" ] ]

health_check == [ status |-> 200, body |-> [ status |-> "healthy", timestamp |-> "now" ] ]

get_all_kpi_data(kpi) == [ status |-> 200, body |-> kpi ]

\* a variant: the handler's catch-all also catches the 404 it raised
get_specific_metric_catch_all(kpi, metric_name) ==
    IF ~HasMetric(kpi, metric_name)
    THEN [ status |-> 500, detail |-> [ text |-> "Failed to fetch metric data" ] ]
    ELSE [ status |-> 200,
           body |-> [ metric |-> metric_name,
                      data |-> MetricInfo(kpi, metric_name),
                      last_updated |-> kpi.last_updated ] ]

get_specific_metric(kpi, metric_name) ==
    IF ~HasMetric(kpi, metric_name)
    THEN [ status |-> 404,
           detail |-> [ text |-> "Metric not found", metric_name |-> metric_name ] ]
    ELSE [ status |-> 200,
           body |-> [ metric |-> metric_name,
                      data |-> MetricInfo(kpi, metric_name),
                      last_updated |-> kpi.last_updated ] ]

\* src/mcp/kpi/api.py never imports analyze_kpi_trends: the call raises
\* NameError, which the handler's except turns into a 500
get_business_insights(sh, kpi) ==
    IF sh = "mcp"
    THEN [ status |-> 500, detail |-> [ text |-> "Failed to generate insights" ] ]
    ELSE [ status |-> 200,
           body |-> [ insights |-> analyze_kpi_trends(kpi), generated_at |-> "now" ] ]


(* ------------------------------ MCP tools ------------------------------ *)

\* fetch_kpi_data_sync: GET /kpi of the API at FASTAPI_URL, which serves the
\* dataset `served`; None (ok = FALSE) when the request fails
fetch_kpi_data_sync(up, served) ==
    IF up /\ get_all_kpi_data(served).status = 200
    THEN [ ok |-> TRUE, json |-> get_all_kpi_data(served).body ]
    ELSE [ ok |-> FALSE ]

fetch_startup_kpis(local, fetched) ==
    IF ~fetched.ok
    THEN [ status |-> "error",
           error |-> "Failed to fetch KPI data from API",
           fallback_data |-> local ]
    ELSE [ status |-> "success", data |-> fetched.json, fetched_at |-> "now" ]

\* a variant: the direction is read off the growth rate as reported, rounded
\* to 2 decimals
get_metric_analysis_rounded_trend(up, served, metric_name) ==
    LET response == get_specific_metric(served, metric_name)
    IN  IF ~up
        THEN [ status |-> "error",
               error |-> [ text |-> "Failed to analyze metric", cause |-> "ConnectError" ] ]
        ELSE IF response.status # 200
        THEN [ status |-> "error",
               error |-> [ text |-> "Failed to analyze metric", cause |-> "HTTPStatusError" ] ]
        ELSE LET metric_data == response.body
                 data_points == metric_data.data.data
                 growth_rate == calculate_growth_rate(data_points)
             IN  [ status |-> "success",
                   metric |-> metric_name,
                   current_value |-> IF Len(data_points) > 0
                                     THEN data_points[Len(data_points)].value ELSE 0,
                   growth_rate |-> Round2(growth_rate),
                   trend_direction |-> IF Round2(growth_rate) > 0 THEN "up"
                                       ELSE IF Round2(growth_rate) < 0 THEN "down"
                                       ELSE "stable",
                   data_points |-> Len(data_points),
                   unit |-> metric_data.data.unit,
                   description |-> metric_data.data.description,
                   raw_data |-> data_points ]

get_metric_analysis(up, served, metric_name) ==
    LET response == get_specific_metric(served, metric_name)
    IN  IF ~up
        THEN [ status |-> "error",
               error |-> [ text |-> "Failed to analyze metric", cause |-> "ConnectError" ] ]
        ELSE IF response.status # 200
        THEN [ status |-> "error",
               error |-> [ text |-> "Failed to analyze metric", cause |-> "HTTPStatusError" ] ]
        ELSE LET metric_data == response.body
                 data_points == metric_data.data.data
                 growth_rate == calculate_growth_rate(data_points)
             IN  [ status |-> "success",
                   metric |-> metric_name,
                   current_value |-> IF Len(data_points) > 0
                                     THEN data_points[Len(data_points)].value ELSE 0,
                   growth_rate |-> Round2(growth_rate),
                   trend_direction |-> IF RatGT(growth_rate, 0) THEN "up"
                                       ELSE IF RatLT(growth_rate, 0) THEN "down"
                                       ELSE "stable",
                   data_points |-> Len(data_points),
                   unit |-> metric_data.data.unit,
                   description |-> metric_data.data.description,
                   raw_data |-> data_points ]

generate_business_insights(sh, up, local, served) ==
    LET response == get_business_insights(sh, served)
    IN  IF up /\ response.status = 200
        THEN [ status |-> "success",
               insights |-> response.body.insights,
               generated_at |-> response.body.generated_at,
               summary |-> "Business insights generated successfully" ]
        ELSE [ status |-> "success_fallback",
               insights |-> analyze_kpi_trends(local),
               generated_at |-> "now",
               note |-> "Generated from cached data due to API unavailability" ]

\* a variant: the sign of the product, with 0 counted as agreeing
correlation_product(growth1, growth2) ==
    IF growth1.num * growth2.num >= 0 THEN "positive" ELSE "negative"

\* the "correlation" field of compare_metrics
correlation(growth1, growth2) ==
    IF (RatGT(growth1, 0) /\ RatGT(growth2, 0)) \/ (RatLT(growth1, 0) /\ RatLT(growth2, 0))
    THEN "positive" ELSE "negative"

compare_metrics(fetched, metric1, metric2) ==
    IF ~fetched.ok
    THEN [ status |-> "error", error |-> "One or both metrics not found" ]
    ELSE IF ~HasMetric(fetched.json, metric1) \/ ~HasMetric(fetched.json, metric2)
    THEN [ status |-> "error", error |-> "One or both metrics not found" ]
    ELSE LET data == fetched.json
             metric1_data == MetricInfo(data, metric1).data
             metric2_data == MetricInfo(data, metric2).data
             growth1 == calculate_growth_rate(metric1_data)
             growth2 == calculate_growth_rate(metric2_data)
             entry1 == [ growth_rate |-> Round2(growth1),
                         current_value |-> metric1_data[Len(metric1_data)].value,
                         unit |-> MetricInfo(data, metric1).unit ]
             entry2 == [ growth_rate |-> Round2(growth2),
                         current_value |-> metric2_data[Len(metric2_data)].value,
                         unit |-> MetricInfo(data, metric2).unit ]
         IN  \* metric1_data[-1] / metric2_data[-1] on an empty list
             IF Len(metric1_data) = 0 \/ Len(metric2_data) = 0
             THEN [ raised |-> "IndexError" ]
             ELSE [ status |-> "success",
                    comparison |-> [ m \in {metric1, metric2} |->
                                       IF m = metric2 THEN entry2 ELSE entry1 ],
                    analysis |-> [ text |-> "is growing at / while / is at",
                                   metric1 |-> metric1, shown1 |-> Fmt1(growth1),
                                   metric2 |-> metric2, shown2 |-> Fmt1(growth2) ],
                    correlation |-> correlation(growth1, growth2) ]

(* ------------------------------- inputs -------------------------------- *)

\* sample values of the generated series (tenths): 0, the churn thresholds
\* 3 and 5 and two values below them, 20 .. 24 (growth of 5, 10, 15, 20 per cent
\* from 20), and a negative value
Values == {0, 10, 20, 30, 50, 200, 210, 220, 230, 240, -200}

\* every list of at most n elements of S
SeqsUpTo(S, n) == UNION { [1..k -> S] : k \in 0..n }

\* a few series, one per shape: empty, single, growing by 10 and by 5 per
\* cent, shrinking by 5 per cent
FewSeries == { MkSeries(vals) :
                 vals \in { <<>>, <<200>>, <<200, 220>>, <<200, 210>>, <<200, 190>> } }

\* the identifiers of generated datasets, in the order of the literal table:
\* the three with their own rules, and one that takes the generic template
DataNameOrder == << "monthly_recurring_revenue", "active_users", "churn_rate",
                    "lifetime_value" >>

DataNames == { DataNameOrder[i] : i \in 1..Len(DataNameOrder) }

\* the identifiers requests are made with: those, and one no dataset holds
RequestNames == DataNames \cup { "net_promoter_score" }

MkInfo(data) == [ unit |-> "USD", description |-> "generated", data |-> data ]

MkData(names, series) ==
    [ metrics |-> [ i \in 1..Len(names) |-> [ name |-> names[i], info |-> MkInfo(series[i]) ] ],
      last_updated |-> "import-time",
      company_info |-> SAMPLE_KPI_DATA.company_info ]

\* lists of at most n distinct identifiers
NameLists(n) == { ns \in SeqsUpTo(DataNames, n) :
                    \A i, j \in 1..Len(ns) : ns[i] = ns[j] => i = j }

\* those of them that keep the order of the literal table
OrderedNameLists(n) ==
    { ns \in NameLists(n) :
        \A i, j \in 1..Len(ns) :
            i < j => \E a, b \in 1..Len(DataNameOrder) :
                        a < b /\ DataNameOrder[a] = ns[i] /\ DataNameOrder[b] = ns[j] }

DatasOver(lists, series) ==
    UNION { { MkData(ns, ss) : ss \in [1..Len(ns) -> series] } : ns \in lists }

\* series of two samples whose growth is next to a branch threshold (0, 5, 10,
\* 15, 20 per cent): from 25000 to the threshold's value, one less, one more;
\* one unit is 0.004 per cent, which round(x, 2) takes to the threshold
NearThresholdSeries ==
    { MkSeries(Whole(<<25000, 25000 + 250 * k + d>>)) :
        k \in {0, 5, 10, 15, 20}, d \in {-1, 0, 1} }

\* series at the edges of the trend direction: one that starts from 0, and
\* two whose growth of 0.004 per cent, up and down, rounds to 0.00
EdgeSeries == { MkSeries(<<0, 200>>),
                MkSeries(Whole(<<25000, 25001>>)),
                MkSeries(Whole(<<25000, 24999>>)) }

\* what the API at FASTAPI_URL may hold: the literal table, or a dataset of up
\* to MaxMetrics metrics with the few series, or one metric with an edge series
ServedDatas ==
    {SAMPLE_KPI_DATA}
        \cup DatasOver(OrderedNameLists(MaxMetrics), FewSeries)
        \cup DatasOver(OrderedNameLists(1), EdgeSeries)

(* ------------------------------- actions ------------------------------- *)

\* shell: the deployment; apiUp: the API at FASTAPI_URL answers; store: this
\* process's SAMPLE_KPI_DATA; dataset: the dataset at hand (what the API at
\* FASTAPI_URL holds; what the analytics functions are applied to); call and
\* result: the last invocation and what it returned
Init ==
    /\ shell \in Shells
    /\ apiUp \in BOOLEAN
    /\ store = SAMPLE_KPI_DATA
    /\ dataset \in ServedDatas
    /\ call = [ op |-> "none" ]
    /\ result = [ status |-> "none" ]

\* the API process stops or becomes unreachable / starts
ApiDown == apiUp /\ apiUp' = FALSE /\ UNCHANGED <<shell, store, dataset, call, result>>

ApiUp == ~apiUp /\ apiUp' = TRUE /\ UNCHANGED <<shell, store, dataset, call, result>>

\* HTTP requests to this process, served while its API is up
GET_root ==
    /\ apiUp
    /\ call' = [ op |-> "GET /" ]
    /\ result' = root
    /\ UNCHANGED <<shell, apiUp, store, dataset>>

GET_health ==
    /\ apiUp
    /\ call' = [ op |-> "GET /health" ]
    /\ result' = health_check
    /\ UNCHANGED <<shell, apiUp, store, dataset>>

GET_kpi ==
    /\ apiUp
    /\ call' = [ op |-> "GET /kpi" ]
    /\ result' = get_all_kpi_data(store)
    /\ UNCHANGED <<shell, apiUp, store, dataset>>

GET_kpi_metric ==
    \E metric_name \in RequestNames :
        /\ apiUp
        /\ call' = [ op |-> "GET /kpi/{metric_name}", metric_name |-> metric_name ]
        /\ result' = get_specific_metric(store, metric_name)
        /\ UNCHANGED <<shell, apiUp, store, dataset>>

GET_insights ==
    /\ apiUp
    /\ call' = [ op |-> "GET /insights" ]
    /\ result' = get_business_insights(shell, store)
    /\ UNCHANGED <<shell, apiUp, store, dataset>>

\* a variant: what was fetched is kept as the local table
Tool_fetch_startup_kpis_caching ==
    LET fetched == fetch_kpi_data_sync(apiUp, dataset)
    IN  /\ call' = [ op |-> "fetch_startup_kpis" ]
        /\ result' = fetch_startup_kpis(store, fetched)
        /\ store' = IF fetched.ok THEN fetched.json ELSE store
        /\ UNCHANGED <<shell, apiUp, dataset>>

\* tool invocations; dataset is the dataset of the API they talk to
Tool_fetch_startup_kpis ==
    /\ call' = [ op |-> "fetch_startup_kpis" ]
    /\ result' = fetch_startup_kpis(store, fetch_kpi_data_sync(apiUp, dataset))
    /\ UNCHANGED <<shell, apiUp, store, dataset>>

Tool_get_metric_analysis ==
    \E metric_name \in RequestNames :
        /\ call' = [ op |-> "get_metric_analysis", metric_name |-> metric_name ]
        /\ result' = get_metric_analysis(apiUp, dataset, metric_name)
        /\ UNCHANGED <<shell, apiUp, store, dataset>>

Tool_generate_business_insights ==
    /\ call' = [ op |-> "generate_business_insights" ]
    /\ result' = generate_business_insights(shell, apiUp, store, dataset)
    /\ UNCHANGED <<shell, apiUp, store, dataset>>

Tool_compare_metrics ==
    \E metric1 \in RequestNames, metric2 \in RequestNames :
        /\ call' = [ op |-> "compare_metrics", metric1 |-> metric1, metric2 |-> metric2 ]
        /\ result' = compare_metrics(fetch_kpi_data_sync(apiUp, dataset), metric1, metric2)
        /\ UNCHANGED <<shell, apiUp, store, dataset>>

Next ==
    \/ ApiDown
    \/ ApiUp
    \/ GET_root
    \/ GET_health
    \/ GET_kpi
    \/ GET_kpi_metric
    \/ GET_insights
    \/ Tool_fetch_startup_kpis
    \/ Tool_get_metric_analysis
    \/ Tool_generate_business_insights
    \/ Tool_compare_metrics

Spec == Init /\ [][Next]_vars

(* --------------- the analytics functions, applied directly ------------- *)

\* the dataset the functions are applied to: the literal table, or a dataset
\* of one metric with any series of up to MaxLen samples, or a dataset of up
\* to MaxMetrics metrics, in any order, with the few series, or a dataset of
\* at most one metric whose growth is next to a threshold
InitFn ==
    /\ shell = "kpi"
    /\ apiUp = FALSE
    /\ store = SAMPLE_KPI_DATA
    /\ \/ dataset = SAMPLE_KPI_DATA
       \/ \E name \in DataNames, k \in 0..MaxLen :
              \E vals \in [1..k -> Values] :
                  dataset = MkData(<<name>>, <<MkSeries(vals)>>)
       \/ dataset \in DatasOver(NameLists(MaxMetrics), FewSeries)
       \/ dataset \in DatasOver(NameLists(1), NearThresholdSeries)
    /\ call = [ op |-> "none" ]
    /\ result = [ status |-> "none" ]

\* calculate_growth_rate on the series of one metric of the dataset
Call_calculate_growth_rate ==
    \E i \in 1..Len(dataset.metrics) :
        /\ call' = [ op |-> "calculate_growth_rate", data |-> dataset.metrics[i].info.data ]
        /\ result' = [ value |-> calculate_growth_rate(dataset.metrics[i].info.data) ]
        /\ UNCHANGED <<shell, apiUp, store, dataset>>

\* analyze_kpi_trends on the dataset
Call_analyze_kpi_trends ==
    /\ call' = [ op |-> "analyze_kpi_trends" ]
    /\ result' = [ value |-> analyze_kpi_trends(dataset) ]
    /\ UNCHANGED <<shell, apiUp, store, dataset>>

NextFn ==
    \/ Call_calculate_growth_rate
    \/ Call_analyze_kpi_trends

SpecFn == InitFn /\ [][NextFn]_vars


(* ------------------- invocations served concurrently ------------------- *)

\* most invocations in progress at once
MaxInvocations == 2

Invocations == 1..MaxInvocations

\* the identifiers concurrent requests are made with: one the store holds,
\* one it does not
ConcurrentNames == { "monthly_recurring_revenue", "net_promoter_score" }

\* what can be invoked: the routes and the tools, with their arguments
Invocable ==
    { [ op |-> o ] : o \in { "GET /", "GET /health", "GET /kpi", "GET /insights",
                              "fetch_startup_kpis", "generate_business_insights" } }
        \cup { [ op |-> o, metric_name |-> n ] :
                  o \in { "GET /kpi/{metric_name}", "get_metric_analysis" },
                  n \in ConcurrentNames }
        \cup { [ op |-> "compare_metrics", metric1 |-> m, metric2 |-> n ] :
                  m \in ConcurrentNames, n \in ConcurrentNames }

IsRoute(c) == c.op \in { "GET /", "GET /health", "GET /kpi", "GET /kpi/{metric_name}",
                          "GET /insights" }

\* the invocation runs the loop of analyze_kpi_trends in this process: the
\* insights route where the function is defined, and the fallback branch of
\* generate_business_insights (the API down, or its answer not a 200)
RunsLoop(c) ==
    \/ c.op = "GET /insights" /\ shell = "kpi"
    \/ /\ c.op = "generate_business_insights"
       /\ ~(apiUp /\ get_business_insights(shell, dataset).status = 200)

\* what an invocation without a loop returns
Answer(c) ==
    CASE c.op = "GET /" -> root
      [] c.op = "GET /health" -> health_check
      [] c.op = "GET /kpi" -> get_all_kpi_data(store)
      [] c.op = "GET /kpi/{metric_name}" -> get_specific_metric(store, c.metric_name)
      [] c.op = "GET /insights" -> get_business_insights(shell, store)
      [] c.op = "fetch_startup_kpis" ->
             fetch_startup_kpis(store, fetch_kpi_data_sync(apiUp, dataset))
      [] c.op = "get_metric_analysis" -> get_metric_analysis(apiUp, dataset, c.metric_name)
      [] c.op = "generate_business_insights" ->
             generate_business_insights(shell, apiUp, store, dataset)
      [] c.op = "compare_metrics" ->
             compare_metrics(fetch_kpi_data_sync(apiUp, dataset), c.metric1, c.metric2)

\* what an invocation returns after its loop
AnswerAfterLoop(c) ==
    IF c.op = "GET /insights"
    THEN [ status |-> 200,
           body |-> [ insights |-> c.insights, generated_at |-> "now" ] ]
    ELSE [ status |-> "success_fallback",
           insights |-> c.insights,
           generated_at |-> "now",
           note |-> "Generated from cached data due to API unavailability" ]

\* call[i] and result[i]: the invocation in slot i (its operation, arguments,
\* position pc and local variables) and what it returned
InitConc ==
    /\ shell \in Shells
    /\ apiUp \in BOOLEAN
    /\ store = SAMPLE_KPI_DATA
    /\ dataset = SAMPLE_KPI_DATA
    /\ call = [ i \in Invocations |-> [ op |-> "none", pc |-> "idle" ] ]
    /\ result = [ i \in Invocations |-> [ status |-> "none" ] ]

\* a request or tool call arrives (a request is accepted while the API is up)
Begin(i) ==
    \E c \in Invocable :
        /\ call[i].pc = "idle"
        /\ IsRoute(c) => apiUp
        /\ call' = [ call EXCEPT ![i] = c @@ [ pc |-> "started" ] ]
        /\ UNCHANGED <<shell, apiUp, store, dataset, result>>

\* an invocation without a loop runs to its return; `up` is whether the API
\* answered it
Serve(i) ==
    /\ call[i].pc = "started"
    /\ ~RunsLoop(call[i])
    /\ call' = [ call EXCEPT ![i] = [ @ EXCEPT !.pc = "returned" ] @@ [ up |-> apiUp ] ]
    /\ result' = [ result EXCEPT ![i] = Answer(call[i]) ]
    /\ UNCHANGED <<shell, apiUp, store, dataset>>

\* insights = []
EnterLoop(i) ==
    /\ call[i].pc = "started"
    /\ RunsLoop(call[i])
    /\ call' = [ call EXCEPT ![i] = [ @ EXCEPT !.pc = "looping" ]
                                      @@ [ up |-> apiUp, pos |-> 1, insights |-> <<>> ] ]
    /\ UNCHANGED <<shell, apiUp, store, dataset, result>>

\* a variant: insights is one list of the module, shared by the invocations
LoopStep_shared_list(i) ==
    /\ call[i].pc = "looping"
    /\ call[i].pos <= Len(store.metrics)
    /\ LET m == store.metrics[call[i].pos]
           added == trend_insight(m.name, m.info)
       IN  call' = [ j \in Invocations |->
                       IF call[j].pc # "looping" THEN call[j]
                       ELSE [ call[j] EXCEPT !.insights = Append(@, added),
                                             !.pos = IF j = i THEN @ + 1 ELSE @ ] ]
    /\ UNCHANGED <<shell, apiUp, store, dataset, result>>

\* one iteration of the loop: the next metric of the store is read and its
\* record appended to the invocation's own list
LoopStep(i) ==
    /\ call[i].pc = "looping"
    /\ call[i].pos <= Len(store.metrics)
    /\ LET m == store.metrics[call[i].pos]
       IN  call' = [ call EXCEPT ![i].insights = Append(@, trend_insight(m.name, m.info)),
                                 ![i].pos = @ + 1 ]
    /\ UNCHANGED <<shell, apiUp, store, dataset, result>>

\* the loop is over: the payload is returned
LoopDone(i) ==
    /\ call[i].pc = "looping"
    /\ call[i].pos > Len(store.metrics)
    /\ call' = [ call EXCEPT ![i].pc = "returned" ]
    /\ result' = [ result EXCEPT ![i] = AnswerAfterLoop(call[i]) ]
    /\ UNCHANGED <<shell, apiUp, store, dataset>>

\* the caller has its answer; the slot is free again
Forget(i) ==
    /\ call[i].pc = "returned"
    /\ call' = [ call EXCEPT ![i] = [ op |-> "none", pc |-> "idle" ] ]
    /\ result' = [ result EXCEPT ![i] = [ status |-> "none" ] ]
    /\ UNCHANGED <<shell, apiUp, store, dataset>>

NextConc ==
    \/ ApiDown
    \/ ApiUp
    \/ \E i \in Invocations : Begin(i)
    \/ \E i \in Invocations : Serve(i)
    \/ \E i \in Invocations : EnterLoop(i)
    \/ \E i \in Invocations : LoopStep(i)
    \/ \E i \in Invocations : LoopDone(i)
    \/ \E i \in Invocations : Forget(i)

SpecConc == InitConc /\ [][NextConc]_vars

(* ------------------------------- claims -------------------------------- *)

\* a series with one more sample, of value v, at position p
InsertAt(data, p, v) ==
    [ i \in 1..(Len(data) + 1) |->
        IF i < p THEN data[i]
        ELSE IF i = p THEN [ month |-> "inserted", value |-> v ]
        ELSE data[i - 1] ]

\* a series without its sample at position p
RemoveAt(data, p) ==
    [ i \in 1..(Len(data) - 1) |-> IF i < p THEN data[i] ELSE data[i + 1] ]

\* the series got from data (of two samples or more) by inserting, removing
\* or changing one sample strictly between the first and the last
MiddleEdits(data) ==
    { InsertAt(data, p, v) : p \in 2..Len(data), v \in Values }
        \cup { RemoveAt(data, p) : p \in 2..(Len(data) - 1) }
        \cup { [ data EXCEPT ![p].value = v ] : p \in 2..(Len(data) - 1), v \in Values }

\* C1: on a series of two samples or more calculate_growth_rate returns 0.0
\* when the first value is 0 and otherwise (last - first) / first * 100 (the
\* rational r with r * first = (last - first) * 100); it is negative when
\* last < first with a positive first value; and inserting, removing or
\* changing an intermediate sample leaves the result as it is.
C1_GrowthFromFirstAndLast ==
    (call.op = "calculate_growth_rate" /\ Len(call.data) >= 2) =>
        LET data == call.data
            first == data[1].value
            last == data[Len(data)].value
            r == result.value
        IN  /\ r.den > 0
            /\ first = 0 => r.num = 0
            /\ first # 0 => r.num * first = (last - first) * 100 * r.den
            /\ (first > 0 /\ last < first) => r.num < 0
            /\ \A edited \in MiddleEdits(data) : calculate_growth_rate(edited) = r

\* C1's case: a declining series with an intermediate sample has been measured
C1_Witness ==
    /\ call.op = "calculate_growth_rate"
    /\ Len(call.data) = 3
    /\ call.data[1].value = 200
    /\ call.data[2].value = 240
    /\ call.data[3].value = 30
    /\ result.value.num < 0

\* C2: calculate_growth_rate returns 0.0 on a series of fewer than two
\* samples, and analyze_kpi_trends gives, for a metric whose series is empty,
\* an Insight with current_value = 0 and growth_rate = 0.0.
C2_TotalOnShortSeries ==
    /\ (call.op = "calculate_growth_rate" /\ Len(call.data) < 2) =>
           (result.value.num = 0 /\ result.value.den = 1)
    /\ call.op = "analyze_kpi_trends" =>
           \A i \in 1..Len(dataset.metrics) :
               dataset.metrics[i].info.data = <<>> =>
                   \E j \in 1..Len(result.value) :
                       /\ result.value[j].metric = dataset.metrics[i].name
                       /\ result.value[j].current_value = 0
                       /\ result.value[j].growth_rate = 0

\* C2's case: a dataset holding a metric without samples has been analysed
C2_Witness ==
    /\ call.op = "analyze_kpi_trends"
    /\ \E i \in 1..Len(dataset.metrics) : dataset.metrics[i].info.data = <<>>
    /\ \E j \in 1..Len(result.value) : result.value[j].current_value = 0

\* the identifiers of a dataset
NamesOf(kpi) == { kpi.metrics[i].name : i \in 1..Len(kpi.metrics) }

\* C3: GET of one metric answers 404, with the requested identifier in the
\* detail, for an identifier the store does not hold, and otherwise 200 with
\* that identifier, the stored metric and the store's last_updated.
C3_GetOneMetric ==
    call.op = "GET /kpi/{metric_name}" =>
        IF call.metric_name \notin NamesOf(store)
        THEN /\ result.status = 404
             /\ result.detail.metric_name = call.metric_name
        ELSE /\ result.status = 200
             /\ result.body.metric = call.metric_name
             /\ \E i \in 1..Len(store.metrics) :
                    /\ store.metrics[i].name = call.metric_name
                    /\ result.body.data = store.metrics[i].info
             /\ result.body.last_updated = store.last_updated

\* C3's case: an identifier the store does not hold has been requested
C3_Witness ==
    /\ call.op = "GET /kpi/{metric_name}"
    /\ call.metric_name = "net_promoter_score"
    /\ result.status = 404

\* C4: analyze_kpi_trends returns one Insight per metric of the dataset, in
\* the dataset's order, each with the identifier and the latest value of its
\* metric, and an empty list only for a dataset without metrics.
C4_OneInsightPerMetric ==
    call.op = "analyze_kpi_trends" =>
        /\ Len(result.value) = Len(dataset.metrics)
        /\ \A i \in 1..Len(dataset.metrics) :
               /\ i <= Len(result.value)
               /\ result.value[i].metric = dataset.metrics[i].name
               /\ result.value[i].unit = dataset.metrics[i].info.unit
               /\ LET data == dataset.metrics[i].info.data
                  IN  Len(data) > 0 =>
                          result.value[i].current_value = data[Len(data)].value
        /\ (result.value = <<>>) <=> (dataset.metrics = <<>>)

\* C4's case: a dataset of two metrics, the first without samples, analysed
C4_Witness ==
    /\ call.op = "analyze_kpi_trends"
    /\ Len(dataset.metrics) = 2
    /\ dataset.metrics[1].info.data = <<>>
    /\ dataset.metrics[2].info.data # <<>>
    /\ Len(result.value) = 2


\* the series of the metric `name` of a dataset that holds it
SeriesOf(kpi, name) ==
    kpi.metrics[CHOOSE i \in 1..Len(kpi.metrics) : kpi.metrics[i].name = name].info.data

\* the growth of a series, (last - first) / first * 100 or 0, is above k
GrowthAbove(data, k) ==
    IF Len(data) < 2 \/ data[1].value = 0 THEN 0 > k
    ELSE LET first == data[1].value
             last == data[Len(data)].value
         IN  IF first > 0 THEN (last - first) * 100 > k * first
             ELSE (last - first) * 100 < k * first

\* ... is below k
GrowthBelow(data, k) ==
    IF Len(data) < 2 \/ data[1].value = 0 THEN 0 < k
    ELSE LET first == data[1].value
             last == data[Len(data)].value
         IN  IF first > 0 THEN (last - first) * 100 < k * first
             ELSE (last - first) * 100 > k * first

\* n, a number of 1/scale, is the growth of the series rounded to the nearest
NearestToGrowth(data, n, scale) ==
    IF Len(data) < 2 \/ data[1].value = 0 THEN n = 0
    ELSE LET first == data[1].value
             last == data[Len(data)].value
         IN  Abs(2 * scale * 100 * (last - first) - 2 * n * first) <= Abs(first)

\* the invocation returned a payload with status "success"
Succeeded(r) == "status" \in DOMAIN r /\ r.status = "success"

\* C5: in a successful compare_metrics result, correlation is "positive"
\* exactly when the two growth rates are both above 0 or both below 0, and
\* "negative" otherwise, also when one of them is 0.
C5_CorrelationIsSameSign ==
    (call.op = "compare_metrics" /\ Succeeded(result)) =>
        LET d1 == SeriesOf(dataset, call.metric1)
            d2 == SeriesOf(dataset, call.metric2)
            same == \/ GrowthAbove(d1, 0) /\ GrowthAbove(d2, 0)
                    \/ GrowthBelow(d1, 0) /\ GrowthBelow(d2, 0)
        IN  result.correlation = IF same THEN "positive" ELSE "negative"

\* C5's case: a metric that grew compared with one of a single sample
C5_Witness ==
    /\ call.op = "compare_metrics"
    /\ Succeeded(result)
    /\ call.metric1 # call.metric2
    /\ GrowthAbove(SeriesOf(dataset, call.metric1), 0)
    /\ Len(SeriesOf(dataset, call.metric2)) = 1
    /\ result.correlation = "negative"

\* C6: compare_metrics fails with the not-found error unless both identifiers
\* are in the store, and whenever both are it returns status "success" with
\* each metric's growth rate, rounded to 2 decimals, and latest value.  (Stated
\* for the API holding the same table as this process.)
C6_CompareSucceedsWhenBothExist ==
    (call.op = "compare_metrics" /\ dataset = store) =>
        IF {call.metric1, call.metric2} \subseteq NamesOf(store)
        THEN /\ Succeeded(result)
             /\ \A m \in {call.metric1, call.metric2} :
                    LET data == SeriesOf(dataset, m)
                    IN  /\ NearestToGrowth(data, result.comparison[m].growth_rate, 100)
                        /\ result.comparison[m].current_value = data[Len(data)].value
        ELSE /\ "status" \in DOMAIN result
             /\ result.status = "error"
             /\ result.error = "One or both metrics not found"

\* the insight of every metric `name` of an analysed dataset satisfies P
InsightsOf(name, P(_, _)) ==
    call.op = "analyze_kpi_trends" =>
        \A i \in 1..Len(dataset.metrics) :
            dataset.metrics[i].name = name =>
                P(dataset.metrics[i].info.data, result.value[i])

\* the latest value of a series, 0 without samples
LatestOf(data) == IF data = <<>> THEN 0 ELSE data[Len(data)].value

C7_Branch(data, insight) ==
    insight.insight.template =
        IF LatestOf(data) < Units(3) THEN "Excellent churn rate"
        ELSE IF LatestOf(data) < Units(5) THEN "Good churn rate"
        ELSE "High churn rate; urgent attention needed"

\* C7: for churn_rate the message is chosen by the latest value alone: below 3
\* "Excellent", from 3 and below 5 "Good", from 5 "High churn rate; urgent
\* attention", whatever the growth rate.
C7_ChurnByLatestValue == InsightsOf("churn_rate", C7_Branch)

\* C7's case: a churn series that grew, and still ends below 3
C7_Witness ==
    /\ call.op = "analyze_kpi_trends"
    /\ Len(dataset.metrics) = 1
    /\ dataset.metrics[1].name = "churn_rate"
    /\ GrowthAbove(dataset.metrics[1].info.data, 0)
    /\ result.value[1].growth_rate > 0
    /\ result.value[1].insight.template = "Excellent churn rate"

C8_Branch(data, insight) ==
    /\ insight.insight.template =
           IF GrowthAbove(data, 15) THEN "Excellent MRR growth"
           ELSE IF GrowthAbove(data, 5) THEN "Solid MRR growth"
           ELSE "MRR growth is; focus on customer acquisition and retention"
    /\ (Len(data) >= 2 /\ data[1].value = Units(8800)
            /\ data[Len(data)].value = Units(12500)) =>
           (insight.growth_rate = 4205 /\ insight.insight.template = "Excellent MRR growth")

\* C8: for monthly_recurring_revenue the message is chosen by the growth rate:
\* above 15 "Excellent", above 5 and up to 15 "Solid", up to 5 "focus on
\* customer acquisition and retention"; from 8800 to 12500 the growth is 42.05
\* and the message "Excellent".
C8_MrrByGrowth == InsightsOf("monthly_recurring_revenue", C8_Branch)

\* C8's case: the literal table, whose revenue goes from 8800 to 12500
C8_Witness ==
    /\ call.op = "analyze_kpi_trends"
    /\ dataset = SAMPLE_KPI_DATA
    /\ result.value[1].metric = "monthly_recurring_revenue"
    /\ result.value[1].growth_rate = 4205
    /\ result.value[1].insight.template = "Excellent MRR growth"

C9_Branch(data, insight) ==
    insight.insight.template =
        IF GrowthAbove(data, 20) THEN "Outstanding user growth"
        ELSE IF GrowthAbove(data, 10) THEN "Good user growth"
        ELSE "User growth is; consider user acquisition strategies"

\* C9: for active_users the message is chosen by the growth rate: above 20
\* "Outstanding", above 10 and up to 20 "Good", up to 10 "Consider user
\* acquisition strategies".
C9_UsersByGrowth == InsightsOf("active_users", C9_Branch)

\* C9's case: users grew by 20 per cent exactly, which is "Good"
C9_Witness ==
    /\ call.op = "analyze_kpi_trends"
    /\ Len(dataset.metrics) = 1
    /\ dataset.metrics[1].name = "active_users"
    /\ result.value[1].growth_rate = 2000
    /\ result.value[1].insight.template = "Good user growth"

C10_Branch(data, insight) ==
    /\ insight.insight.template =
           IF GrowthAbove(data, 0) THEN "is trending up by" ELSE "is trending down by"
    /\ insight.insight.shown >= 0
    /\ \/ NearestToGrowth(data, insight.insight.shown, 10)
       \/ NearestToGrowth(data, -insight.insight.shown, 10)
    /\ (~GrowthAbove(data, 0) /\ ~GrowthBelow(data, 0)) =>
           (insight.insight.template = "is trending down by" /\ insight.insight.shown = 0)

\* C10: every identifier other than monthly_recurring_revenue, churn_rate and
\* active_users gets the generic message: "trending up by X" when the growth is
\* above 0 and "trending down by |X|" otherwise, so a growth of 0 (also of an
\* empty or single-sample series) reads "trending down by 0".
C10_GenericByGrowthSign ==
    \A name \in (NamesOf(dataset)
                    \ {"monthly_recurring_revenue", "churn_rate", "active_users"}) :
        InsightsOf(name, C10_Branch)

\* C10's case: a metric of a single sample, under the generic message
C10_Witness ==
    /\ call.op = "analyze_kpi_trends"
    /\ Len(dataset.metrics) = 1
    /\ dataset.metrics[1].name = "lifetime_value"
    /\ Len(dataset.metrics[1].info.data) = 1
    /\ result.value[1].insight.template = "is trending down by"
    /\ result.value[1].insight.shown = 0

\* the insight's branch is the one the unrounded growth selects, and its
\* growth_rate field is that growth rounded to hundredths
C11_Branch(name, data, insight) ==
    /\ NearestToGrowth(data, insight.growth_rate, 100)
    /\ name = "monthly_recurring_revenue" =>
           /\ GrowthAbove(data, 15) => insight.insight.template = "Excellent MRR growth"
           /\ (GrowthAbove(data, 5) /\ ~GrowthAbove(data, 15)) =>
                  insight.insight.template = "Solid MRR growth"
           /\ ~GrowthAbove(data, 5) => insight.insight.template
                  = "MRR growth is; focus on customer acquisition and retention"
    /\ name = "active_users" =>
           /\ GrowthAbove(data, 20) => insight.insight.template = "Outstanding user growth"
           /\ (GrowthAbove(data, 10) /\ ~GrowthAbove(data, 20)) =>
                  insight.insight.template = "Good user growth"
           /\ ~GrowthAbove(data, 10) => insight.insight.template
                  = "User growth is; consider user acquisition strategies"
    /\ name \notin {"monthly_recurring_revenue", "active_users", "churn_rate"} =>
           insight.insight.template =
               IF GrowthAbove(data, 0) THEN "is trending up by" ELSE "is trending down by"

\* C11: in every Insight the growth_rate field is the computed growth rate
\* rounded to 2 decimals, while the thresholds (15 and 5 for revenue, 20 and
\* 10 for users, 0 for the generic message) see the unrounded growth rate: a
\* growth above a threshold that rounds down to it still takes the upper branch.
C11_ThresholdsSeeUnrounded ==
    call.op = "analyze_kpi_trends" =>
        \A i \in 1..Len(dataset.metrics) :
            C11_Branch(dataset.metrics[i].name, dataset.metrics[i].info.data,
                       result.value[i])

\* C11's case: revenue grew by 15.004 per cent, shown as 15.00, and the
\* message is the one above the threshold of 15
C11_Witness ==
    /\ call.op = "analyze_kpi_trends"
    /\ Len(dataset.metrics) = 1
    /\ dataset.metrics[1].name = "monthly_recurring_revenue"
    /\ GrowthAbove(dataset.metrics[1].info.data, 15)
    /\ result.value[1].growth_rate = 1500
    /\ result.value[1].insight.template = "Excellent MRR growth"

\* C12: the store is never mutated after startup: after any sequence of HTTP
\* requests and tool invocations, successful or failing, the metrics,
\* company_info and last_updated of SAMPLE_KPI_DATA are what they were when
\* the process started.
C12_StoreNeverMutated ==
    /\ store.metrics = SAMPLE_KPI_DATA.metrics
    /\ store.company_info = SAMPLE_KPI_DATA.company_info
    /\ store.last_updated = SAMPLE_KPI_DATA.last_updated
    /\ DOMAIN store = DOMAIN SAMPLE_KPI_DATA

\* C12's case: a tool has fetched, with success, a table other than the
\* local one
C12_Witness ==
    /\ call.op = "fetch_startup_kpis"
    /\ Succeeded(result)
    /\ result.data # SAMPLE_KPI_DATA
    /\ store = SAMPLE_KPI_DATA

\* C13: GET of the insights answers every request with a success response
\* holding the Insight records of the store's metrics, one per metric, and a
\* generated_at timestamp, and never with a server error, in both shells.
C13_InsightsEndpointSucceeds ==
    call.op = "GET /insights" =>
        /\ result.status = 200
        /\ Len(result.body.insights) = Len(store.metrics)
        /\ \A i \in 1..Len(store.metrics) :
               result.body.insights[i].metric = store.metrics[i].name
        /\ "generated_at" \in DOMAIN result.body

\* the step is an invocation of the tool `op` (the API neither stops nor starts)
Invokes(op) == call'.op = op /\ apiUp' = apiUp

\* C14: when the API cannot be reached, every tool that needs the data
\* recovers with the static default dataset: fetch_startup_kpis,
\* generate_business_insights and compare_metrics do not end with status
\* "error" because of the unreachable upstream.
C14_FallbackWhenUnreachable ==
    [][ \A op \in {"fetch_startup_kpis", "generate_business_insights", "compare_metrics"} :
            (~apiUp /\ Invokes(op)) =>
                /\ "status" \in DOMAIN result'
                /\ result'.status # "error" ]_vars

\* the tool operations
Tools == { "fetch_startup_kpis", "get_metric_analysis",
           "generate_business_insights", "compare_metrics" }

\* C15: every tool turns every internal failure into a payload with status
\* "error" and lets no exception escape; in particular compare_metrics
\* returns a payload when a compared metric's series is empty.
C15_ToolsNeverRaise ==
    call.op \in Tools =>
        /\ "raised" \notin DOMAIN result
        /\ "status" \in DOMAIN result
        /\ (call.op = "compare_metrics"
               /\ {call.metric1, call.metric2} \subseteq NamesOf(dataset)
               /\ \E m \in {call.metric1, call.metric2} : SeriesOf(dataset, m) = <<>>) =>
               result.status = "error"

\* C16: every payload a tool returns has a status that is "success", "error" or
\* "success_fallback"; "success_fallback" is returned only when the API was
\* unreachable and the local dataset was used; whenever the API is up,
\* generate_business_insights returns "success" with the insights the API
\* served.
C16_StatusDiscriminator ==
    [][ \A op \in Tools :
            (Invokes(op) /\ "raised" \notin DOMAIN result') =>
                /\ "status" \in DOMAIN result'
                /\ result'.status \in {"success", "error", "success_fallback"}
                /\ result'.status = "success_fallback" => ~apiUp
                /\ (apiUp /\ op = "generate_business_insights") =>
                       /\ result'.status = "success"
                       /\ Len(result'.insights) = Len(dataset.metrics)
                       /\ \A i \in 1..Len(dataset.metrics) :
                              result'.insights[i].metric = dataset.metrics[i].name ]_vars

\* what the invocation c returns when it runs alone over the table the process
\* started with, the API answering it (c.up) or not
Alone(c) ==
    CASE c.op = "GET /" -> root
      [] c.op = "GET /health" -> health_check
      [] c.op = "GET /kpi" -> get_all_kpi_data(SAMPLE_KPI_DATA)
      [] c.op = "GET /kpi/{metric_name}" ->
             get_specific_metric(SAMPLE_KPI_DATA, c.metric_name)
      [] c.op = "GET /insights" -> get_business_insights(shell, SAMPLE_KPI_DATA)
      [] c.op = "fetch_startup_kpis" ->
             fetch_startup_kpis(SAMPLE_KPI_DATA, fetch_kpi_data_sync(c.up, dataset))
      [] c.op = "get_metric_analysis" -> get_metric_analysis(c.up, dataset, c.metric_name)
      [] c.op = "generate_business_insights" ->
             generate_business_insights(shell, c.up, SAMPLE_KPI_DATA, dataset)
      [] c.op = "compare_metrics" ->
             compare_metrics(fetch_kpi_data_sync(c.up, dataset), c.metric1, c.metric2)

\* C17: concurrent invocations need no coordination: in every interleaving,
\* each invocation returns the payload it returns when run alone (timestamps
\* aside), and what an invocation has read of the store so far is what it
\* reads of it when run alone.
C17_ConcurrentAsAlone ==
    \A i \in Invocations :
        /\ call[i].pc = "returned" => result[i] = Alone(call[i])
        /\ call[i].pc = "looping" =>
               /\ call[i].pos - 1 <= Len(SAMPLE_KPI_DATA.metrics)
               /\ call[i].insights =
                      SubSeq(analyze_kpi_trends(SAMPLE_KPI_DATA), 1, call[i].pos - 1)

\* C17's case: the insights route and the fallback of the insights tool are
\* both part-way through their loops, at different metrics
C17_Witness ==
    \E i \in Invocations, j \in Invocations :
        /\ call[i].pc = "looping" /\ call[i].op = "GET /insights"
        /\ call[j].pc = "looping" /\ call[j].op = "generate_business_insights"
        /\ call[i].pos = 4
        /\ call[j].pos = 2

\* C18: in every successful get_metric_analysis result, trend_direction is
\* "up" exactly when the unrounded growth rate is above 0, "down" exactly when
\* it is below 0 and "stable" exactly when it is 0 (so for a series of fewer
\* than two samples, or a first value of 0); data_points is the number of
\* samples and current_value the last sample's value, or 0 for no sample.
C18_TrendDirection ==
    (call.op = "get_metric_analysis" /\ Succeeded(result)) =>
        LET data == SeriesOf(dataset, call.metric_name)
        IN  /\ result.trend_direction \in {"up", "down", "stable"}
            /\ result.trend_direction = "up" <=> GrowthAbove(data, 0)
            /\ result.trend_direction = "down" <=> GrowthBelow(data, 0)
            /\ (Len(data) < 2 \/ data[1].value = 0) => result.trend_direction = "stable"
            /\ result.data_points = Len(data)
            /\ result.current_value = LatestOf(data)

\* C18's case: a metric that went down by 0.004 per cent, reported as a growth
\* of 0.00, has been analysed
C18_Witness ==
    /\ call.op = "get_metric_analysis"
    /\ Succeeded(result)
    /\ GrowthBelow(SeriesOf(dataset, call.metric_name), 0)
    /\ result.growth_rate = 0
    /\ result.trend_direction = "down"
    /\ result.data_points = 2

====
